---- MODULE Spec2Model ----
(***************************************************************************)
(* Model of script.py: a weather service with users, cities, a cached      *)
(* hourly forecast per city, a periodic refresh job (update_weather_data)  *)
(* and a nearest-time forecast lookup (get_forecast).                      *)
(*                                                                         *)
(* The event loop is single threaded: a request handler without an await   *)
(* runs atomically; update_weather_data is suspended at every              *)
(* `await fetch_weather(...)`, where handlers may run.  Every handler and  *)
(* the job open their own sqlite3 connection on the same database file.    *)
(*                                                                         *)
(* sqlite3 as the code uses it (default isolation level, rollback          *)
(* journal): the first UPDATE of the job opens a transaction that holds    *)
(* the write lock of the file until conn.commit(); other connections read  *)
(* the committed rows meanwhile, and their INSERTs fail with               *)
(* OperationalError (database is locked) once the busy timeout is over.    *)
(* A job left by an exception never commits or closes: its transaction     *)
(* is rolled back, and the lock released, when the connection object is    *)
(* freed.  The scheduler runs one instance of the job at a time.           *)
(***************************************************************************)
EXTENDS Integers, Sequences, FiniteSets, TLC

(* ---------------------------- bounds ---------------------------------- *)
\* cities stored
MaxCities == 2
\* readings of the clock by the refresh job
MaxNow == 3

(* --------------------------- null values ------------------------------ *)
\* SQL NULL in cities.weather_data / cities.last_updated
NULL == 0
\* Python None: a value of the result, closest_index before the scan
None == -1
\* float("inf"), the initial min_diff
Inf == -1
\* datetime.strptime raising ValueError
ValueError == -1

(* ------------------------ input alphabets ----------------------------- *)
Usernames == {"ann", "bob"}
CityNames == {"Oslo", "Rome"}
Lats == {10}
Lons == {20}

\* time strings, as sequences of characters
T0840  == <<"0", "8", ":", "4", "0">>
T0900  == <<"0", "9", ":", "0", "0">>
T0001  == <<"0", "0", ":", "0", "1">>
T85    == <<"8", ":", "5">>
T2599  == <<"2", "5", ":", "9", "9">>
TNine  == <<"n", "i", "n", "e", " ", "a", "m">>
T0860  == <<"0", "8", ":", "6", "0">>
T1000  == <<"1", "0", ":", "0", "0">>
TimeStrings == {T0840, T0900, T0001, T85, T2599, TNine, T0860, T1000}

\* parameter lists of a forecast request
ParamLists == { <<"temperature_2m">>,
                <<"temperature_2m", "wind_speed_10m">>,
                <<"pressure", "temperature_2m">>,
                <<"temperature_2m", "pressure">>,
                <<"wind_speed_10m", "temperature_2m", "wind_speed_10m">>,
                <<"precipitation", "temperature_2m">> }

(* ------------------- forecast payloads (response json) ----------------- *)
\* an ISO timestamp "YYYY-MM-DDTHH:MM" of the hourly.time sequence
TS(d, h, m) == [date |-> d, hour |-> h, minute |-> m]

\* The payloads the upstream provider answers with: JSON objects, as records
\* of their keys.  "hourly" maps "time" and the field names to sequences.
PayloadTable == <<
  \* 1: three samples of one day
  [latitude |-> 10,
   hourly |-> [time |-> <<TS(1, 8, 0), TS(1, 9, 0), TS(1, 10, 0)>>,
               temperature_2m |-> <<11, 12, 13>>,
               wind_speed_10m |-> <<21, 22, 23>>]],
  \* 2: a sample late in the day and one at noon of the next day
  [latitude |-> 10,
   hourly |-> [time |-> <<TS(1, 23, 59), TS(2, 12, 0)>>,
               temperature_2m |-> <<31, 32>>,
               wind_speed_10m |-> <<41, 42>>]],
  \* 3: samples over two dates, each time of day twice; precipitation short
  [latitude |-> 10,
   hourly |-> [time |-> <<TS(1, 8, 0), TS(1, 10, 0), TS(2, 8, 0), TS(2, 10, 0)>>,
               temperature_2m |-> <<51, 52, 53, 54>>,
               wind_speed_10m |-> <<61, 62, 63, 64>>,
               precipitation |-> <<71>>]],
  \* 4: no samples
  [latitude |-> 10,
   hourly |-> [time |-> <<>>,
               temperature_2m |-> <<>>,
               wind_speed_10m |-> <<>>]],
  \* 5: an object without "hourly"
  [latitude |-> 10]
>>
PayloadIds == 1..Len(PayloadTable)

\* json.dumps(weather_data): the TEXT stored in cities.weather_data; the
\* text of a payload is identified by the payload's position in the table.
json_dumps(payload) == CHOOSE k \in PayloadIds : PayloadTable[k] = payload
\* json.loads(weather_data)
json_loads(text) == PayloadTable[text]

(* ----------------------- time parsing --------------------------------- *)
DigitChars == <<"0", "1", "2", "3", "4", "5", "6", "7", "8", "9">>
IsDigit(c) == \E n \in 1..10 : DigitChars[n] = c
DigitVal(c) == (CHOOSE n \in 1..10 : DigitChars[n] = c) - 1
IsDigits(s) == \A k \in 1..Len(s) : IsDigit(s[k])
NumVal(s) == IF Len(s) = 1 THEN DigitVal(s[1])
             ELSE 10 * DigitVal(s[1]) + DigitVal(s[2])

\* datetime.strptime(time, "%H:%M").time(): minutes since midnight, or
\* ValueError.  %H is one or two digits up to 23, %M one or two digits up
\* to 59, and the whole string must be consumed.
strptime(s) ==
  LET colons == {k \in 1..Len(s) : s[k] = ":"}
  IN IF Cardinality(colons) /= 1 THEN ValueError
     ELSE LET k == CHOOSE c \in colons : TRUE
              h == SubSeq(s, 1, k - 1)
              m == SubSeq(s, k + 1, Len(s))
          IN IF /\ Len(h) \in 1..2 /\ Len(m) \in 1..2
                /\ IsDigits(h) /\ IsDigits(m)
                /\ NumVal(h) <= 23 /\ NumVal(m) <= 59
             THEN NumVal(h) * 60 + NumVal(m)
             ELSE ValueError

\* datetime.fromisoformat(time_str).time(): the date is dropped
fromisoformat_time(ts) == ts.hour * 60 + ts.minute

Abs(x) == IF x < 0 THEN 0 - x ELSE x

\* abs((combine(today, data_time) - combine(today, target_time)).total_seconds())
time_diff(data_time, target_time) == Abs(data_time - target_time) * 60

(* ------------------- get_forecast: the pure part ---------------------- *)
\* weather_data.get("hourly", {}).get("time", [])
hourly_times(payload) ==
  IF "hourly" \in DOMAIN payload /\ "time" \in DOMAIN payload.hourly
  THEN payload.hourly["time"] ELSE <<>>

\* scan with `<=` for `<`: a tie goes to the last index
RECURSIVE scan_last_tie(_, _, _, _, _)
scan_last_tie(times, target_time, i, min_diff, closest_index) ==
  IF i > Len(times) THEN closest_index
  ELSE LET d == time_diff(fromisoformat_time(times[i]), target_time)
       IN IF min_diff = Inf \/ d <= min_diff
          THEN scan_last_tie(times, target_time, i + 1, d, i - 1)
          ELSE scan_last_tie(times, target_time, i + 1, min_diff, closest_index)

\* The scan of lines 202-209 from position i (1-based here) on, with the
\* running min_diff and closest_index (0-based, as enumerate yields it).
RECURSIVE scan(_, _, _, _, _)
scan(times, target_time, i, min_diff, closest_index) ==
  IF i > Len(times) THEN closest_index
  ELSE LET d == time_diff(fromisoformat_time(times[i]), target_time)
       IN IF min_diff = Inf \/ d < min_diff
          THEN scan(times, target_time, i + 1, d, i - 1)
          ELSE scan(times, target_time, i + 1, min_diff, closest_index)

\* the scan with closest_index initialised to 0 in place of None
closest_from_zero(times, target_time) == scan(times, target_time, 1, Inf, 0)

closest(times, target_time) == scan(times, target_time, 1, Inf, None)

\* weather_data["hourly"].get(param, [None])
field_values(payload, param) ==
  IF param \in DOMAIN payload.hourly THEN payload.hourly[param] ELSE <<None>>

\* does the subscript ["hourly"] of the projection raise KeyError
raises_KeyError(payload, parameters) ==
  Len(parameters) > 0 /\ "hourly" \notin DOMAIN payload

\* does the subscript [closest_index] of some requested parameter raise IndexError
raises_IndexError(payload, parameters, closest_index) ==
  \E k \in 1..Len(parameters) :
     closest_index + 1 > Len(field_values(payload, parameters[k]))

\* the projection built as a list of pairs: a repeated name repeats its item
RECURSIVE dict_items_list(_, _, _, _)
dict_items_list(payload, parameters, closest_index, k) ==
  IF k > Len(parameters) THEN <<>>
  ELSE <<[key |-> parameters[k],
          value |-> field_values(payload, parameters[k])[closest_index + 1]]>>
       \o dict_items_list(payload, parameters, closest_index, k + 1)

\* The dict {param: ...[closest_index] for param in parameters}, as the
\* sequence of its items: a key keeps the place of its first occurrence.
RECURSIVE dict_items(_, _, _, _)
dict_items(payload, parameters, closest_index, k) ==
  IF k > Len(parameters) THEN <<>>
  ELSE LET param == parameters[k]
           rest == dict_items(payload, parameters, closest_index, k + 1)
       IN IF \E j \in 1..(k - 1) : parameters[j] = param
          THEN rest
          ELSE <<[key |-> param,
                  value |-> field_values(payload, param)[closest_index + 1]]>>
               \o rest

(* ------------------------------ state --------------------------------- *)
VARIABLES
  users,     \* table users: set of rows [id, username]
  cities,    \* table cities, committed rows in rowid order
  tick,      \* the running update_weather_data job: position and connection
  dangling,  \* an abandoned connection still holds an open write transaction
  now,       \* the clock datetime.now() reads
  resp,      \* the last request handled and its response
  provider   \* api.open-meteo.com as fetch_weather meets it: "flaky" or "healthy"

vars == <<users, cities, tick, dangling, now, resp, provider>>

\* the database file is write-locked by another connection
Locked == dangling \/ (tick.pc = "running" /\ tick.txn)

NoResp == [op |-> "none", status |-> 0, error |-> "",
           user_id |-> 0, username |-> "", city |-> "", time |-> <<>>,
           parameters |-> <<>>, city_id |-> 0, wd |-> NULL,
           closest_index |-> None, result |-> <<>>, listing |-> <<>>,
           body |-> NULL, pre |-> "", changed |-> FALSE, old_wd |-> NULL,
           job_wd |-> NULL, seen |-> 0, transport |-> "", upstream |-> 0]

IdleTick == [pc |-> "idle", rows |-> <<>>, txn |-> FALSE, pending |-> <<>>,
             log |-> <<>>, before |-> <<>>]

Init ==
  /\ users = {}
  /\ cities = <<>>
  /\ tick = IdleTick
  /\ dangling = FALSE
  /\ now = 0
  /\ resp = NoResp
  /\ provider = "flaky"

(* ------------------------- fetch_weather ------------------------------ *)
Statuses == {200, 204, 500}
\* payloads the provider answers with in the refresh runs
FetchBodies == {1, 2}

\* What one GET can end in: a response (status, json body) or an
\* httpx.RequestError raised by client.get (connect error, timeout).
FetchOutcomes ==
  {[transport |-> "ok", status |-> 200, body |-> b] : b \in FetchBodies}
  \cup {[transport |-> "ok", status |-> st, body |-> 5] : st \in Statuses \ {200}}
  \cup {[transport |-> "RequestError", status |-> 0, body |-> 5]}

\* the outcomes a GET has while the provider answers every request with 200
HealthyOutcomes == {o \in FetchOutcomes : o.transport = "ok" /\ o.status = 200}

\* fetch_weather: the value returned ("json" with the body, or "None"), or
\* the exception that leaves it.
fetch_weather(outcome) ==
  IF outcome.transport /= "ok"
  THEN [returns |-> "raise", json |-> PayloadTable[outcome.body]]
  ELSE IF outcome.status = 200
       THEN [returns |-> "json", json |-> PayloadTable[outcome.body]]
       ELSE [returns |-> "None", json |-> PayloadTable[outcome.body]]

(* --------------------------- the tables ------------------------------- *)
SetMax(S) == CHOOSE m \in S : \A x \in S : x <= m
SetMin(S) == CHOOSE m \in S : \A x \in S : m <= x

\* the rowid an INSERT gets in an AUTOINCREMENT table
lastrowid(ids) == IF ids = {} THEN 1 ELSE SetMax(ids) + 1

UserIds(us) == {usr.id : usr \in us}
CityIds(cs) == {cs[k].id : k \in 1..Len(cs)}

\* the UNIQUE constraint on users.username rejects the INSERT
username_taken(us, username) == \E usr \in us : usr.username = username

\* add_city without the lookup of the owner
user_exists_unchecked(us, user_id) == TRUE

\* SELECT id FROM users WHERE id = ? finds a row
user_exists(us, user_id) == \E usr \in us : usr.id = user_id

(* --------------------------- handlers --------------------------------- *)
\* Each handler maps the committed tables, whether another connection holds
\* the write lock, and its arguments to the new tables and the response.

register_user(us, locked, username) ==
  LET r == [NoResp EXCEPT !.op = "register_user", !.username = username]
  IN IF locked
     THEN [users |-> us,
           resp |-> [r EXCEPT !.status = 500, !.error = "OperationalError"]]
     ELSE IF username_taken(us, username)
     THEN [users |-> us,
           resp |-> [r EXCEPT !.status = 400, !.error = "DuplicateUsername"]]
     ELSE LET id == lastrowid(UserIds(us))
          IN [users |-> us \cup {[id |-> id, username |-> username]},
              resp |-> [r EXCEPT !.status = 200, !.user_id = id]]

\* add_city as INSERT OR REPLACE on (user_id, name): a second add of a name
\* overwrites the owner's row of that name, cached forecast included
add_city_upsert(us, cs, locked, user_id, name, lat, lon) ==
  LET r == [NoResp EXCEPT !.op = "add_city", !.user_id = user_id, !.city = name]
      same == {k \in 1..Len(cs) : cs[k].user_id = user_id /\ cs[k].name = name}
      id == lastrowid(CityIds(cs))
      row == [id |-> id, user_id |-> user_id, name |-> name, latitude |-> lat,
              longitude |-> lon, weather_data |-> NULL, last_updated |-> NULL]
  IN IF ~user_exists(us, user_id)
     THEN [cities |-> cs,
           resp |-> [r EXCEPT !.status = 404, !.error = "UserNotFound"]]
     ELSE IF locked
     THEN [cities |-> cs,
           resp |-> [r EXCEPT !.status = 500, !.error = "OperationalError"]]
     ELSE IF same /= {}
     THEN [cities |-> [k \in 1..Len(cs) |->
                         IF k \in same THEN [row EXCEPT !.id = cs[k].id]
                         ELSE cs[k]],
           resp |-> [r EXCEPT !.status = 200, !.city_id = cs[SetMin(same)].id]]
     ELSE [cities |-> Append(cs, row),
           resp |-> [r EXCEPT !.status = 200, !.city_id = id]]

add_city(us, cs, locked, user_id, name, lat, lon) ==
  LET r == [NoResp EXCEPT !.op = "add_city", !.user_id = user_id, !.city = name]
  IN IF ~user_exists(us, user_id)
     THEN [cities |-> cs,
           resp |-> [r EXCEPT !.status = 404, !.error = "UserNotFound"]]
     ELSE IF locked
     THEN [cities |-> cs,
           resp |-> [r EXCEPT !.status = 500, !.error = "OperationalError"]]
     ELSE LET id == lastrowid(CityIds(cs))
          IN [cities |-> Append(cs, [id |-> id, user_id |-> user_id,
                                     name |-> name, latitude |-> lat,
                                     longitude |-> lon, weather_data |-> NULL,
                                     last_updated |-> NULL]),
              resp |-> [r EXCEPT !.status = 200, !.city_id = id]]

\* the SELECT with DISTINCT on the name: same-named cities listed once
RECURSIVE select_cities_distinct(_, _, _)
select_cities_distinct(cs, user_id, k) ==
  IF k > Len(cs) THEN <<>>
  ELSE (IF /\ cs[k].user_id = user_id
           /\ \A j \in 1..(k - 1) :
                 ~(cs[j].user_id = user_id /\ cs[j].name = cs[k].name)
        THEN <<[name |-> cs[k].name, latitude |-> cs[k].latitude,
                longitude |-> cs[k].longitude]>>
        ELSE <<>>) \o select_cities_distinct(cs, user_id, k + 1)

RECURSIVE select_cities(_, _, _)
select_cities(cs, user_id, k) ==
  IF k > Len(cs) THEN <<>>
  ELSE (IF cs[k].user_id = user_id
        THEN <<[name |-> cs[k].name, latitude |-> cs[k].latitude,
                longitude |-> cs[k].longitude]>>
        ELSE <<>>) \o select_cities(cs, user_id, k + 1)

get_cities(cs, user_id) ==
  [NoResp EXCEPT !.op = "get_cities", !.user_id = user_id, !.status = 200,
                 !.listing = select_cities(cs, user_id, 1)]

\* get_forecast with the time parsed before the SELECT
get_forecast_time_first(cs, user_id, city, time, parameters) ==
  LET r == [NoResp EXCEPT !.op = "get_forecast", !.user_id = user_id,
                          !.city = city, !.time = time,
                          !.parameters = parameters]
      matches == {k \in 1..Len(cs) : cs[k].user_id = user_id /\ cs[k].name = city}
      target_time == strptime(time)
  IN IF target_time = ValueError
     THEN [r EXCEPT !.status = 400, !.error = "InvalidTimeFormat"]
     ELSE IF matches = {}
     THEN [r EXCEPT !.status = 404, !.error = "CityNotFound"]
     ELSE
     LET row == cs[SetMin(matches)]
         r1 == [r EXCEPT !.city_id = row.id, !.wd = row.weather_data]
     IN IF row.weather_data = NULL
        THEN [r1 EXCEPT !.status = 404, !.error = "NoForecastData"]
        ELSE
        LET weather_data == json_loads(row.weather_data)
            closest_index == closest(hourly_times(weather_data), target_time)
        IN IF closest_index = None
           THEN [r1 EXCEPT !.status = 404, !.error = "NoMatchingSample"]
           ELSE IF raises_IndexError(weather_data, parameters, closest_index)
           THEN [r1 EXCEPT !.status = 500, !.error = "IndexError",
                           !.closest_index = closest_index]
           ELSE [r1 EXCEPT !.status = 200,
                           !.closest_index = closest_index,
                           !.result = dict_items(weather_data, parameters,
                                                 closest_index, 1)]

get_forecast(cs, user_id, city, time, parameters) ==
  LET r == [NoResp EXCEPT !.op = "get_forecast", !.user_id = user_id,
                          !.city = city, !.time = time,
                          !.parameters = parameters]
      matches == {k \in 1..Len(cs) : cs[k].user_id = user_id /\ cs[k].name = city}
  IN IF matches = {}
     THEN [r EXCEPT !.status = 404, !.error = "CityNotFound"]
     ELSE
     LET row == cs[SetMin(matches)]
         r1 == [r EXCEPT !.city_id = row.id, !.wd = row.weather_data]
     IN IF row.weather_data = NULL
        THEN [r1 EXCEPT !.status = 404, !.error = "NoForecastData"]
        ELSE
        LET weather_data == json_loads(row.weather_data)
            target_time == strptime(time)
        IN IF target_time = ValueError
           THEN [r1 EXCEPT !.status = 400, !.error = "InvalidTimeFormat"]
           ELSE
           LET closest_index == closest(hourly_times(weather_data), target_time)
           IN IF closest_index = None
              THEN [r1 EXCEPT !.status = 404, !.error = "NoMatchingSample"]
              ELSE IF raises_KeyError(weather_data, parameters)
              THEN [r1 EXCEPT !.status = 500, !.error = "KeyError",
                              !.closest_index = closest_index]
              ELSE IF raises_IndexError(weather_data, parameters, closest_index)
              THEN [r1 EXCEPT !.status = 500, !.error = "IndexError",
                              !.closest_index = closest_index]
              ELSE [r1 EXCEPT !.status = 200,
                              !.closest_index = closest_index,
                              !.result = dict_items(weather_data, parameters,
                                                    closest_index, 1)]

get_current_weather(outcome) ==
  LET r == [NoResp EXCEPT !.op = "get_current_weather"]
      weather == fetch_weather(outcome)
  IN IF weather.returns = "raise"
     THEN [r EXCEPT !.status = 500, !.error = outcome.transport]
     ELSE IF weather.returns = "json"
     THEN [r EXCEPT !.status = 200, !.body = json_dumps(weather.json)]
     ELSE [r EXCEPT !.status = 500, !.error = "UpstreamUnavailable"]

(* ------------------------ request actions ----------------------------- *)
\* inputs of the requests in the full service
\* user ids: those of the users that can exist, and one that matches none
ReqUserIds == 1..(Cardinality(Usernames) + 1)
\* the name cities are added under and asked for
AddNames == {"Oslo"}
ReqTimes == {T0840}
ReqParams == { <<"temperature_2m">> }

RegisterUser ==
  \E username \in Usernames :
    LET out == register_user(users, Locked, username)
    IN /\ users' = out.users
       /\ resp' = [out.resp EXCEPT
                     !.pre = IF \E usr \in users : usr.username = username
                             THEN "taken" ELSE "free",
                     !.changed = (out.users /= users)]
       /\ UNCHANGED <<provider, cities, tick, dangling, now>>

AddCity ==
  \E user_id \in ReqUserIds, name \in AddNames, lat \in Lats, lon \in Lons :
    LET out == add_city(users, cities, Locked, user_id, name, lat, lon)
    IN /\ Len(out.cities) <= MaxCities
       /\ cities' = out.cities
       /\ resp' = [out.resp EXCEPT
                     !.pre = IF \E usr \in users : usr.id = user_id
                             THEN "owner" ELSE "no_owner",
                     !.changed = (out.cities /= cities)]
       /\ UNCHANGED <<provider, users, tick, dangling, now>>

ListCities ==
  \E user_id \in ReqUserIds :
    /\ resp' = [get_cities(cities, user_id) EXCEPT !.seen = Len(cities)]
    /\ UNCHANGED <<provider, users, cities, tick, dangling, now>>

\* the committed weather_data of the first city of that owner and name
Stored(user_id, city) ==
  IF \E k \in 1..Len(cities) : cities[k].user_id = user_id /\ cities[k].name = city
  THEN LET k == CHOOSE k \in 1..Len(cities) :
                  /\ cities[k].user_id = user_id /\ cities[k].name = city
                  /\ \A j \in 1..(k - 1) :
                        ~(cities[j].user_id = user_id /\ cities[j].name = city)
       IN cities[k].weather_data
  ELSE NULL

\* the weather_data the running job has written for that city and not
\* committed yet
JobWrote(user_id, city) ==
  IF \E k \in 1..Len(cities) : cities[k].user_id = user_id /\ cities[k].name = city
  THEN LET k == CHOOSE k \in 1..Len(cities) :
                  /\ cities[k].user_id = user_id /\ cities[k].name = city
                  /\ \A j \in 1..(k - 1) :
                        ~(cities[j].user_id = user_id /\ cities[j].name = city)
       IN IF tick.pc = "running" /\ cities[k].id \in DOMAIN tick.pending
          THEN tick.pending[cities[k].id].weather_data ELSE NULL
  ELSE NULL

GetForecastOf(userids, names, times, paramlists) ==
  \E user_id \in userids, city \in names,
     time \in times, parameters \in paramlists :
    LET out == get_forecast(cities, user_id, city, time, parameters)
    IN /\ resp' = [out EXCEPT !.old_wd = Stored(user_id, city),
                               !.job_wd = JobWrote(user_id, city)]
       /\ UNCHANGED <<provider, users, cities, tick, dangling, now>>

GetForecast == GetForecastOf(ReqUserIds, AddNames, ReqTimes, ReqParams)

FetchCurrentWeather ==
  \E outcome \in FetchOutcomes :
    /\ resp' = [get_current_weather(outcome) EXCEPT
                  !.transport = outcome.transport,
                  !.upstream = outcome.status]
    /\ UNCHANGED <<provider, users, cities, tick, dangling, now>>

(* ---------------------- update_weather_data --------------------------- *)
\* an UPDATE that sets the payload and leaves last_updated to a later one
update_row_torn(row, weather_data, last_updated) ==
  [row EXCEPT !.weather_data = weather_data]

\* UPDATE cities SET weather_data = ?, last_updated = ? WHERE id = ?
update_row(row, weather_data, last_updated) ==
  [row EXCEPT !.weather_data = weather_data, !.last_updated = last_updated]

\* a job that never calls conn.commit(): its UPDATEs are lost
commit_forgotten(cs, pending) == cs

\* conn.commit(): the rows the connection updated replace the committed ones
commit(cs, pending) ==
  [k \in 1..Len(cs) |->
     IF cs[k].id \in DOMAIN pending THEN pending[cs[k].id] ELSE cs[k]]

\* the committed row with a given id
RowOf(cs, id) == cs[CHOOSE k \in 1..Len(cs) : cs[k].id = id]

\* datetime.now(): later than every stamp written so far while the clock is
\* below MaxNow; from MaxNow on the stamps repeat
datetime_now(n) == IF n < MaxNow THEN n + 1 ELSE n

\* Lines 227-233 up to the first await: SELECT the rows; with no row the
\* loop is skipped and the job commits and returns at once.
SelectRows ==
  /\ tick.pc /= "running"
  /\ tick' = [pc |-> IF Len(cities) = 0 THEN "done" ELSE "running",
              rows |-> [k \in 1..Len(cities) |->
                          [id |-> cities[k].id, lat |-> cities[k].latitude,
                           lon |-> cities[k].longitude]],
              txn |-> FALSE, pending |-> <<>>, log |-> <<>>,
              before |-> cities]
  /\ UNCHANGED <<provider, users, cities, dangling, now, resp>>

\* a job the scheduler starts while the clock can still stamp every row
\* with a fresh time
UpdateStart ==
  /\ now + Len(cities) <= MaxNow
  /\ SelectRows

\* One resumption of the job: the fetch of row i ends; on a payload the row
\* is updated in the job's transaction; after the last row the job commits,
\* otherwise it issues the next fetch and is suspended again.
UpdateStep ==
  /\ tick.pc = "running"
  /\ \E outcome \in (IF provider = "healthy" THEN HealthyOutcomes
                      ELSE FetchOutcomes) :
       LET i == Len(tick.log) + 1
           city_id == tick.rows[i].id
           weather_data == fetch_weather(outcome)
           text == json_dumps(weather_data.json)
           entry == [city_id |-> city_id, returns |-> weather_data.returns,
                     weather_data |-> IF weather_data.returns = "json"
                                      THEN text ELSE NULL,
                     at |-> IF weather_data.returns = "json"
                            THEN datetime_now(now) ELSE NULL]
           log == Append(tick.log, entry)
       IN IF weather_data.returns = "raise"
          \* the exception leaves the job: no commit, no close
          THEN /\ tick' = [tick EXCEPT !.pc = "failed", !.log = log,
                                       !.txn = FALSE, !.pending = <<>>]
               /\ dangling' = (dangling \/ tick.txn)
               /\ UNCHANGED <<provider, users, cities, now, resp>>
          ELSE IF weather_data.returns = "json" /\ ~tick.txn /\ dangling
          \* the UPDATE cannot get the write lock: OperationalError
          THEN /\ tick' = [tick EXCEPT !.pc = "failed", !.log = log]
               /\ UNCHANGED <<provider, users, cities, dangling, now, resp>>
          ELSE
          LET wrote == weather_data.returns = "json"
              pending == IF wrote
                         THEN (city_id :> update_row(RowOf(cities, city_id),
                                                     text, datetime_now(now)))
                              @@ tick.pending
                         ELSE tick.pending
              last == i = Len(tick.rows)
          IN /\ now' = IF wrote THEN datetime_now(now) ELSE now
             /\ IF last
                THEN /\ cities' = commit(cities, pending)
                     /\ tick' = [tick EXCEPT !.pc = "done", !.log = log,
                                             !.txn = FALSE, !.pending = <<>>]
                ELSE /\ cities' = cities
                     /\ tick' = [tick EXCEPT !.log = log, !.pending = pending,
                                             !.txn = tick.txn \/ wrote]
             /\ UNCHANGED <<provider, users, dangling, resp>>

\* The garbage collector frees the connection of a job that was left by an
\* exception: its open transaction is rolled back and the lock released.
ConnectionFreed ==
  /\ dangling
  /\ dangling' = FALSE
  /\ UNCHANGED <<provider, users, cities, tick, now, resp>>

Next ==
  \/ RegisterUser
  \/ AddCity
  \/ ListCities
  \/ GetForecast
  \/ FetchCurrentWeather
  \/ UpdateStart
  \/ UpdateStep
  \/ ConnectionFreed

Spec == Init /\ [][Next]_vars

(* ------------- the forecast query on a store at rest ------------------- *)
\* Stores the service can be restarted on: one user, up to MaxCities cities
\* of that user, each never refreshed or holding one of the payloads.
QueryUserIds == {1, 2}
QueryRows(n) ==
  [1..n -> [name : CityNames, weather_data : {NULL} \cup PayloadIds]]
QueryStore(f) ==
  [k \in DOMAIN f |->
     [id |-> k, user_id |-> 1, name |-> f[k].name,
      latitude |-> SetMin(Lats), longitude |-> SetMin(Lons),
      weather_data |-> f[k].weather_data,
      last_updated |-> IF f[k].weather_data = NULL THEN NULL ELSE 1]]

InitQuery ==
  /\ users = {[id |-> 1, username |-> "ann"]}
  /\ \E n \in 0..MaxCities : \E f \in QueryRows(n) : cities = QueryStore(f)
  /\ tick = IdleTick
  /\ dangling = FALSE
  /\ now = 1
  /\ resp = NoResp
  /\ provider = "flaky"

\* one forecast request per behaviour, with any of the arguments
QueryForecast ==
  /\ resp.op = "none"
  /\ GetForecastOf(QueryUserIds, CityNames, TimeStrings, ParamLists)

NextQuery == QueryForecast

SpecQuery == InitQuery /\ [][NextQuery]_vars

(* ------------- the service under a recovering provider ----------------- *)
\* The interval trigger fires every 15 minutes for as long as the service
\* runs; a job is started when none is running (one instance at a time).
ScheduledTick == SelectRows

\* from some point on the provider answers every GET with 200 and a payload
ProviderRecovers ==
  /\ provider = "flaky"
  /\ provider' = "healthy"
  /\ UNCHANGED <<users, cities, tick, dangling, now, resp>>

\* The service started on a database that holds one user and no city, at
\* the time from which the stamps of datetime_now repeat: jobs can run
\* for ever and every stamp they write is MaxNow.
InitLive ==
  /\ users = {[id |-> 1, username |-> "ann"]}
  /\ cities = <<>>
  /\ tick = IdleTick
  /\ dangling = FALSE
  /\ now = MaxNow
  /\ resp = NoResp
  /\ provider = "flaky"

NextLive ==
  \/ AddCity
  \/ ScheduledTick
  \/ UpdateStep
  \/ ConnectionFreed
  \/ ProviderRecovers

\* The scheduler keeps firing, a fetch the job awaits ends (with a response
\* or the client's timeout) and the job is resumed, and the collector frees
\* an abandoned connection.
SpecLive ==
  /\ InitLive /\ [][NextLive]_vars
  /\ WF_vars(ScheduledTick)
  /\ WF_vars(UpdateStep)
  /\ WF_vars(ConnectionFreed)

(* =========================== properties =============================== *)
\* what the last forecast request read, for the properties below
IsForecast == resp.op = "get_forecast"
ReadPayload == PayloadTable[resp.wd]
ReadTimes == IF "hourly" \in DOMAIN ReadPayload
             THEN ReadPayload.hourly.time ELSE <<>>
\* seconds between the time of day of sample j (1-based) and the requested
\* time, within one day
SameDaySeconds(j) ==
  LET t == ReadTimes[j].hour * 3600 + ReadTimes[j].minute * 60
      q == strptime(resp.time) * 60
  IN IF t < q THEN q - t ELSE t - q

\* C1: with a non-empty timestamp sequence and a well-formed time, the
\* selected index minimises the same-day difference in seconds between the
\* sample's time of day and the target, and is the lowest such index;
\* 08:00, 09:00, 10:00 with 08:40 select index 1, and with samples 23:59 and
\* 12:00 the target 00:01 selects 12:00.
C1_NearestLowestIndex ==
  (/\ IsForecast /\ resp.wd /= NULL
   /\ strptime(resp.time) /= ValueError /\ Len(ReadTimes) > 0)
  => /\ resp.closest_index \in 0..(Len(ReadTimes) - 1)
     /\ \A j \in 1..Len(ReadTimes) :
          SameDaySeconds(resp.closest_index + 1) <= SameDaySeconds(j)
     /\ \A j \in 1..resp.closest_index :
          SameDaySeconds(resp.closest_index + 1) < SameDaySeconds(j)
     /\ (resp.wd = 1 /\ resp.time = T0840 => resp.closest_index = 1)
     /\ (resp.wd = 2 /\ resp.time = T0001 => resp.closest_index = 1)

\* C1 witness: a tie (08:00 and 10:00 twice each, target 09:00) resolved to
\* index 0
C1_Witness ==
  /\ IsForecast /\ resp.status = 200
  /\ resp.wd = 3 /\ resp.time = T0900 /\ resp.closest_index = 0

\* the items a request must yield: each requested name once, with the value
\* at the selected index, or None for a name the payload lacks
ExpectedValue(param) ==
  IF param \in DOMAIN ReadPayload.hourly
  THEN ReadPayload.hourly[param][resp.closest_index + 1]
  ELSE None
Requested == {resp.parameters[k] : k \in 1..Len(resp.parameters)}
Absent == {param \in Requested : param \notin DOMAIN ReadPayload.hourly}
InRange == \A param \in Requested \ Absent :
             resp.closest_index + 1 <= Len(ReadPayload.hourly[param])

\* C2: a requested field name absent from the payload yields None for that
\* field only, at every selected index: the request succeeds and every other
\* requested field has its value at the selected index.
C2_AbsentFieldIsNone ==
  (/\ IsForecast /\ resp.closest_index /= None
   /\ Absent /= {} /\ InRange)
  => /\ resp.status = 200
     /\ {resp.result[k].key : k \in 1..Len(resp.result)} = Requested
     /\ \A k \in 1..Len(resp.result) :
          resp.result[k].value = ExpectedValue(resp.result[k].key)

\* the first stored city of the requested owner and name, 0 if there is none
Resolved ==
  LET m == {k \in 1..Len(cities) :
              cities[k].user_id = resp.user_id /\ cities[k].name = resp.city}
  IN IF m = {} THEN 0 ELSE CHOOSE k \in m : \A j \in m : k <= j

\* C3 as stated: a malformed time fails with InvalidTimeFormat in every
\* store state, before any lookup.
C3_MalformedAlwaysInvalidTime ==
  (IsForecast /\ strptime(resp.time) = ValueError)
  => resp.error = "InvalidTimeFormat"

\* C3 amended: the city is looked up first; a malformed time fails with
\* CityNotFound when the pair resolves to no city, NoForecastData when the
\* city has no payload, and InvalidTimeFormat otherwise.
C3_MalformedAfterLookup ==
  (IsForecast /\ strptime(resp.time) = ValueError)
  => resp.error = IF Resolved = 0 THEN "CityNotFound"
                  ELSE IF cities[Resolved].weather_data = NULL
                       THEN "NoForecastData"
                       ELSE "InvalidTimeFormat"

C3_Witness ==
  /\ IsForecast /\ resp.time = T2599 /\ Resolved /= 0
  /\ cities[Resolved].weather_data = 1
  /\ resp.status = 400 /\ resp.error = "InvalidTimeFormat"

\* C4: on an existing city whose cached forecast is unset the request fails
\* with NoForecastData, whatever the time (well-formed or not) and the
\* field names.
C4_UnsetIsNoForecastData ==
  (IsForecast /\ Resolved /= 0 /\ cities[Resolved].weather_data = NULL)
  => resp.status = 404 /\ resp.error = "NoForecastData"

C4_Witness ==
  /\ IsForecast /\ Resolved = 2 /\ cities[Resolved].weather_data = NULL
  /\ resp.time = TNine /\ resp.parameters = <<"pressure", "temperature_2m">>
  /\ resp.error = "NoForecastData"

(* ------------------ properties of the refresh job --------------------- *)
TickEnded == tick.pc \in {"done", "failed"}
\* the committed row of the k-th city the job selected, and that row as it
\* was when the job started
RowNow(k) == cities[k]
RowBefore(k) == tick.before[k]
Fetched(k) == k <= Len(tick.log)
Succeeded(k) == Fetched(k) /\ tick.log[k].returns = "json"

\* C5: a refresh over N cities issues exactly N fetches, one per city,
\* whatever the fetches end in, and changes last_updated and the payload
\* only of cities whose fetch succeeded.
C5_ExactlyNFetches ==
  TickEnded
  => /\ Len(tick.log) = Len(tick.rows)
     /\ \A k \in 1..Len(tick.rows) :
          /\ tick.log[k].city_id = tick.rows[k].id
          /\ RowNow(k) /= RowBefore(k) => Succeeded(k)

\* C6: a failed fetch leaves its city untouched, surfaces no error, and the
\* job goes on: every city of the run whose fetch succeeded ends the run
\* with its payload replaced and last_updated set, before or after the
\* failing one.
C6_FailureIsolated ==
  TickEnded
  => \A k \in 1..Len(tick.log) :
       IF Succeeded(k)
       THEN /\ RowNow(k).weather_data = tick.log[k].weather_data
            /\ RowNow(k).last_updated = tick.log[k].at
       ELSE /\ RowNow(k) = RowBefore(k)
            /\ tick.pc = "done"
            /\ k < Len(tick.rows) => Fetched(k + 1)

\* C7: a city's payload and last_updated are written together: during and
\* after a run every row is entirely as before the run or entirely as the
\* run's fetch wrote it; and a forecast is computed from one whole payload,
\* the one committed before the request or the one the job has written.
C7_NoTornRow ==
  /\ \A k \in 1..Len(tick.before) :
       \/ RowNow(k) = RowBefore(k)
       \/ /\ Succeeded(k)
          /\ RowNow(k) = [RowBefore(k) EXCEPT
                            !.weather_data = tick.log[k].weather_data,
                            !.last_updated = tick.log[k].at]
  /\ (IsForecast /\ resp.status = 200)
     => \E text \in {resp.old_wd, resp.job_wd} \ {NULL} :
          \A k \in 1..Len(resp.result) :
            resp.result[k].value =
              PayloadTable[text].hourly[resp.result[k].key][resp.closest_index + 1]

\* C7 witness: a forecast read while the job holds an uncommitted new
\* payload for that city returns the old one
C7_Witness ==
  /\ IsForecast /\ resp.status = 200
  /\ resp.job_wd /= NULL /\ resp.old_wd /= NULL /\ resp.job_wd /= resp.old_wd
  /\ resp.wd = resp.old_wd

\* C8: a forecast request that starts after the job wrote a city's fetch
\* observes the new payload, also while the job fetches the other cities.
C8_WriteVisibleAtOnce ==
  (IsForecast /\ resp.job_wd /= NULL) => resp.wd = resp.job_wd

\* C9: registering a username that is registered fails with
\* DuplicateUsername and changes nothing; no two users share a username or
\* an id.
C9_DuplicateRejected ==
  /\ (resp.op = "register_user" /\ resp.pre = "taken")
     => /\ resp.status = 400 /\ resp.error = "DuplicateUsername"
        /\ ~resp.changed
  /\ \A u1, u2 \in users :
       (u1.username = u2.username \/ u1.id = u2.id) => u1 = u2

\* C10: adding a city under a user_id that matches no user fails with
\* UserNotFound and creates no city; every city's owner is a stored user.
C10_UnknownOwnerRejected ==
  /\ (resp.op = "add_city" /\ resp.pre = "no_owner")
     => /\ resp.status = 404 /\ resp.error = "UserNotFound"
        /\ ~resp.changed
  /\ \A k \in 1..Len(cities) :
       \E usr \in users : usr.id = cities[k].user_id

\* C10 witness: the rejection while the job holds the write lock
C10_Witness ==
  /\ resp.op = "add_city" /\ resp.pre = "no_owner"
  /\ resp.error = "UserNotFound"
  /\ Locked /\ Len(cities) = MaxCities

\* requested names the payload holds with too few values for the selected
\* index
Short == {param \in Requested \ Absent :
            resp.closest_index + 1 > Len(ReadPayload.hourly[param])}

\* C11: when a requested field is present in the payload but its sequence is
\* shorter than the timestamp sequence, so that the selected index is out of
\* its range, the request does not fail and that field has the value None.
C11_ShortFieldIsNone ==
  (/\ IsForecast /\ resp.closest_index /= None
   /\ Absent = {} /\ Short /= {})
  => /\ resp.status = 200
     /\ {resp.result[k].key : k \in 1..Len(resp.result)} = Requested
     /\ \A k \in 1..Len(resp.result) :
          resp.result[k].key \in Short => resp.result[k].value = None

\* position of the first occurrence of a name in the requested list
FirstAt(param) ==
  CHOOSE k \in 1..Len(resp.parameters) :
    /\ resp.parameters[k] = param
    /\ \A j \in 1..(k - 1) : resp.parameters[j] /= param

\* C12: a successful forecast result has exactly one entry per requested
\* field name, in the order the names were requested, and no entry for a
\* name that was not requested.
C12_OneEntryPerRequestedName ==
  (IsForecast /\ resp.status = 200)
  => /\ {resp.result[k].key : k \in 1..Len(resp.result)} = Requested
     /\ Len(resp.result) = Cardinality(Requested)
     /\ \A j, k \in 1..Len(resp.result) :
          j < k => FirstAt(resp.result[j].key) < FirstAt(resp.result[k].key)

\* C12 witness: a list that names one field twice around another
C12_Witness ==
  /\ IsForecast /\ resp.status = 200
  /\ resp.parameters = <<"wind_speed_10m", "temperature_2m", "wind_speed_10m">>
  /\ Len(resp.result) = 2
  /\ resp.result[1].key = "wind_speed_10m"
  /\ resp.result[2].key = "temperature_2m"

\* the indices (1-based) of the samples whose time of day is the requested
\* time
ExactAt == {j \in 1..Len(ReadTimes) : SameDaySeconds(j) = 0}

\* C13 as stated: when the requested time equals the time of day of the
\* sample at index i, that index i is selected, for every such i, also when
\* the same time of day occurs at several indices.
C13_EveryExactIndexSelected ==
  (/\ IsForecast /\ resp.wd /= NULL /\ strptime(resp.time) /= ValueError)
  => \A i \in ExactAt : resp.closest_index = i - 1

\* C13: when the requested time equals the time of day of some sample, the
\* selected index is the lowest index whose sample has that time of day;
\* a later sample with the same time of day (another date) is not selected.
C13_LowestExactIndexSelected ==
  (/\ IsForecast /\ resp.wd /= NULL /\ strptime(resp.time) /= ValueError
   /\ ExactAt /= {})
  => /\ resp.closest_index + 1 \in ExactAt
     /\ \A i \in ExactAt : resp.closest_index + 1 <= i

\* C13 witness: 10:00 requested from samples 08:00, 10:00 of two dates
C13_Witness ==
  /\ IsForecast /\ resp.wd = 3 /\ resp.time = T1000
  /\ ExactAt = {2, 4} /\ resp.closest_index = 1

\* C14: for a stored city whose payload has an empty or absent timestamp
\* sequence, a request with a well-formed time fails with NoMatchingSample,
\* whatever fields are requested.
C14_NoSamplesIsNoMatchingSample ==
  (/\ IsForecast /\ Resolved /= 0 /\ resp.wd /= NULL
   /\ strptime(resp.time) /= ValueError /\ Len(ReadTimes) = 0)
  => /\ resp.status = 404 /\ resp.error = "NoMatchingSample"
     /\ resp.result = <<>>

\* C14 witness: the payload without "hourly", two fields requested
C14_Witness ==
  /\ IsForecast /\ resp.wd = 5 /\ "hourly" \notin DOMAIN ReadPayload
  /\ Len(resp.parameters) = 2 /\ resp.error = "NoMatchingSample"

\* C14 witness for the payload whose "hourly" has an empty "time"
C14_WitnessEmpty ==
  /\ IsForecast /\ resp.wd = 4 /\ "hourly" \in DOMAIN ReadPayload
  /\ resp.error = "NoMatchingSample"

\* C15: the forecast client returns the payload for every 2xx status and None,
\* never an exception, for every other status and every transport failure;
\* so the current-weather request answers with the payload on a 2xx and
\* fails with UpstreamUnavailable in every other case, the store unchanged.
C15_ClientNeverRaises ==
  resp.op = "get_current_weather"
  => /\ (resp.transport = "ok" /\ resp.upstream \in 200..299)
        => (resp.status = 200 /\ resp.body /= NULL)
     /\ ~(resp.transport = "ok" /\ resp.upstream \in 200..299)
        => (resp.status = 500 /\ resp.error = "UpstreamUnavailable")
     /\ ~resp.changed

\* C16: a stored city keeps its place, id, owner, name, latitude and
\* longitude in every step, and a step that changes a stored city's row is
\* the commit of the refresh job; a step that is not a step of the job
\* (a request of RegisterUser, AddCity, ListCities, GetForecast or
\* FetchCurrentWeather) leaves every stored row as it was.
C16_CityRowFrame ==
  [][\A k \in 1..Len(cities) :
       /\ Len(cities') >= k
       /\ cities'[k].id = cities[k].id
       /\ cities'[k].user_id = cities[k].user_id
       /\ cities'[k].name = cities[k].name
       /\ cities'[k].latitude = cities[k].latitude
       /\ cities'[k].longitude = cities[k].longitude
       /\ cities'[k] /= cities[k]
            => (tick.pc = "running" /\ tick'.pc = "done")
       /\ tick' = tick => cities'[k] = cities[k]]_vars

\* C16 witness: a city added after the first one was refreshed, the first
\* one still holding its forecast
C16_Witness ==
  /\ resp.op = "add_city" /\ resp.status = 200 /\ resp.city_id = 2
  /\ Len(cities) = 2
  /\ cities[1].weather_data /= NULL /\ cities[2].weather_data = NULL

\* the places of the cities of the asked owner among the cities stored when
\* the last ListCities request was handled
ListedPlaces == {k \in 1..resp.seen : cities[k].user_id = resp.user_id}
\* the j-th of them in rowid order
ListedPlace(j) ==
  CHOOSE k \in ListedPlaces :
    Cardinality({i \in ListedPlaces : i <= k}) = j

\* C17: ListCities answers with the name, latitude and longitude of exactly
\* the cities added under the asked owner, one entry per added city
\* (same-named cities each listed), and with the empty sequence, not an
\* error, for an owner without cities or an id that is no user's.
C17_ListsExactlyOwnedCities ==
  resp.op = "get_cities"
  => /\ resp.status = 200 /\ resp.error = ""
     /\ Len(resp.listing) = Cardinality(ListedPlaces)
     /\ \A j \in 1..Len(resp.listing) :
          resp.listing[j] =
            [name |-> cities[ListedPlace(j)].name,
             latitude |-> cities[ListedPlace(j)].latitude,
             longitude |-> cities[ListedPlace(j)].longitude]
     /\ (\A usr \in users : usr.id /= resp.user_id) => resp.listing = <<>>

\* C17 witness: two cities of one name listed for their owner
C17_Witness ==
  /\ resp.op = "get_cities" /\ Len(resp.listing) = 2
  /\ resp.listing[1].name = resp.listing[2].name

\* C17 witness: the empty listing for an id that is no user's, with cities
\* of another owner stored
C17_WitnessNoUser ==
  /\ resp.op = "get_cities" /\ resp.listing = <<>> /\ resp.seen > 0
  /\ \A usr \in users : usr.id /= resp.user_id

\* C18: at every point of a refresh job, also while it is suspended on a
\* fetch after an UPDATE, registering an unused username and adding a city
\* for a stored user succeed and are persisted; no such request fails on
\* the database write lock.
C18_WritesSucceedDuringTick ==
  /\ (resp.op = "register_user" /\ resp.pre = "free")
     => (resp.status = 200 /\ resp.changed)
  /\ (resp.op = "add_city" /\ resp.pre = "owner")
     => (resp.status = 200 /\ resp.changed)
  /\ resp.error /= "OperationalError"

\* C19: every stored city has weather_data NULL exactly when its
\* last_updated is NULL, in every state.
C19_ForecastIffStamp ==
  \A k \in 1..Len(cities) :
    (cities[k].weather_data = NULL) <=> (cities[k].last_updated = NULL)

\* C19 witness: after a job that got a payload for one city and None for the
\* other, one row has both columns set and the other has neither
C19_Witness ==
  /\ tick.pc = "done" /\ Len(tick.log) = 2
  /\ \E k \in 1..Len(cities) :
       cities[k].weather_data /= NULL /\ cities[k].last_updated /= NULL
  /\ \E k \in 1..Len(cities) :
       cities[k].weather_data = NULL /\ cities[k].last_updated = NULL

\* C20: once a city is stored and every fetch succeeds from then on, the
\* city eventually holds a cached forecast and holds one from then on (a
\* forecast request for it no longer fails with NoForecastData); a job that
\* failed is followed by the next scheduled job.
C20_EventuallyCached ==
  \A k \in 1..MaxCities :
    (Len(cities) >= k /\ provider = "healthy")
      ~> [](Len(cities) >= k /\ cities[k].weather_data /= NULL)

\* C20 witness: with the provider recovered, the job that just ended stored
\* the first forecast of some city, and every stored city holds a forecast
C20_Witness ==
  /\ provider = "healthy" /\ tick.pc = "done" /\ ~dangling
  /\ Len(cities) = MaxCities
  /\ \A k \in 1..Len(cities) : cities[k].weather_data /= NULL
  /\ \E k \in 1..Len(cities) : tick.before[k].weather_data = NULL
====
